---- MODULE Spec2Model ----
(***************************************************************************)
(* The secret-path game of src/index.js: board generation and commitment,  *)
(* the window "click" handler, the timers and camera tweens it starts, the *)
(* proof pipeline run at the end of the victory fly-over, and the          *)
(* "verify" button listener.                                               *)
(*                                                                         *)
(* Lengths are kept in tenths of a world unit so that the source's 0.1     *)
(* tolerance, 0.8 offsets and 2.5 row pitch are integers: tileSize = 1 is  *)
(* 10 here, tileGapZ = 1.5 is 15, tileOffset = 0.8 is 8, 0.1 is 1.         *)
(* Strings are sequences of one-character strings.                         *)
(***************************************************************************)
EXTENDS Integers, Sequences, FiniteSets

VARIABLES
    secretPath,        \* const secretPath = []            (line 102)
    tiles,             \* const tiles = [], row-major      (line 101)
    publicHash,        \* const publicHash                 (line 126); 0 before it is computed
    listening,         \* the window click listener is registered (line 187)
    currentExpectedZ,  \* let currentExpectedZ             (line 103)
    canClick,          \* let canClick                     (line 185)
    userPath,          \* const userPath = []              (line 186)
    mouse,             \* what the pointer of the last handled click is over (lines 189-192)
    revealed,          \* indices of the tiles revealTile was called on (line 201)
    cameraTweens,      \* camera tweens of line 202 still in flight, by the tile row's z
    failTimer,         \* the setTimeout of line 204 is pending
    winTimers,         \* pending setTimeout callbacks of line 215
    flyovers,          \* fly-over tweens of line 216 whose onComplete has not run yet
    pc,                \* where the async onComplete of line 218 is
    proofRuns,         \* how many times onComplete entered its try block (line 224)
    errorLogged,       \* console.error(e) of line 273 was called
    noirInputs,        \* const noirInputs                 (lines 229-233)
    proof,             \* const { proof }                  (line 235)
    proofHash,         \* #proof-hash-value textContent    (lines 239-242)
    copyButtons,       \* #copy-buttons is displayed       (line 244)
    verifyListener,    \* the verify-btn listener is registered (line 261)
    proofInput,        \* the text in #proof-input, read by the verify click (line 262)
    verifyOutcome      \* what the last verify click did: "none" | "prompt" | "valid" | "invalid"

vars == <<secretPath, tiles, publicHash, listening, currentExpectedZ, canClick,
          userPath, mouse, revealed, cameraTweens, failTimer, winTimers, flyovers,
          pc, proofRuns, errorLogged, noirInputs, proof, proofHash, copyButtons,
          verifyListener, proofInput, verifyOutcome>>

boardVars == <<secretPath, tiles, publicHash, listening>>
gameVars  == <<currentExpectedZ, canClick, userPath, revealed, cameraTweens,
               failTimer, winTimers, flyovers>>
proofVars == <<pc, proofRuns, errorLogged, noirInputs, proof, proofHash,
               copyButtons, verifyListener>>
verifyVars == <<proofInput, verifyOutcome>>

\* ------------------------------------------------------------------ bounds
\* Longest text in #proof-input when only the verify listener is exercised.
MaxInputLen == 5
\* Longest text typed by hand into #proof-input during a game session.
MaxTypedLen == 1

\* ------------------------------------------------------------- tile grid
numRows == 3
numCols == 2
tileSize == 10
tileGapZ == 15
tileOffset == 8
tileOffsets == <<-tileOffset, tileOffset>>

Abs(v) == IF v < 0 THEN -v ELSE v

\* z of the tiles of row i (0-based): -i * (tileSize + tileGapZ)
TileZ(i) == -i * (tileSize + tileGapZ)

TileBreak_inverted(j, safeIndex) == (j = safeIndex)
\* tile.userData.break = (j !== safeIndex)
TileBreak(j, safeIndex) == (j # safeIndex)

\* The numCols tiles of row i, as pushed into tiles.
RowTiles(i, safeIndex) ==
    [k \in 1..numCols |->
        [x |-> tileOffsets[k], z |-> TileZ(i), colIndex |-> k - 1,
         break |-> TileBreak(k - 1, safeIndex)]]

\* --------------------------------------------------------- conversions
Digits == <<"0", "1", "2", "3", "4", "5", "6", "7", "8", "9">>
HexDigits == <<"0", "1", "2", "3", "4", "5", "6", "7", "8", "9",
               "a", "b", "c", "d", "e", "f">>

\* BigInt.prototype.toString(): decimal, no padding.
RECURSIVE ToString(_)
ToString(n) ==
    IF n < 10 THEN <<Digits[n + 1]>>
    ELSE ToString(n \div 10) \o <<Digits[(n % 10) + 1]>>

MapToString(path) == [i \in 1..Len(path) |-> ToString(path[i])]

\* b.toString(16).padStart(2, "0") joined behind "0x"
RECURSIVE HexJoin(_)
HexJoin(array) ==
    IF Len(array) = 0 THEN <<>>
    ELSE <<HexDigits[(array[1] \div 16) + 1], HexDigits[(array[1] % 16) + 1]>>
         \o HexJoin(Tail(array))
toHex(array) == <<"0", "x">> \o HexJoin(array)

\* ---------------------------------------------------------- externals
\* api.poseidon2Hash(secretPath): a deterministic function of the path with no
\* collisions on the paths of this board (a positional code stands in for it).
RECURSIVE Poseidon2Hash(_)
Poseidon2Hash(path) ==
    IF Len(path) = 0 THEN 1
    ELSE (path[1] + 1) + (numCols + 1) * Poseidon2Hash(Tail(path))

\* Proof bytes backend.generateProof may return, and SHA-256 digests
\* crypto.subtle.digest may return for them (both cut to a few bytes).
Proofs == {<<1, 2>>}
Digests == {<<10>>, <<170>>}

\* The field element a decimal string denotes, as the circuit's ABI decodes it.
RECURSIVE ParseField(_)
ParseField(s) ==
    IF Len(s) = 0 THEN 0
    ELSE 10 * ParseField(SubSeq(s, 1, Len(s) - 1))
         + (CHOOSE d \in 0..9 : Digits[d + 1] = s[Len(s)])

\* fn main of main.nr: both asserts hold for these inputs.
CircuitSatisfied(in) ==
    /\ Len(in.secret_path) = numRows
    /\ Len(in.user_path) = numRows
    /\ \A i \in 1..numRows :
          ParseField(in.secret_path[i]) = ParseField(in.user_path[i])
    /\ Poseidon2Hash([i \in 1..numRows |-> ParseField(in.secret_path[i])])
          = ParseField(in.public_hash)

NoInputs == [secret_path |-> <<>>, user_path |-> <<>>, public_hash |-> <<>>]

\* ------------------------------------------------------ click handler
RowMismatch_loose(z, expectedZ) == Abs(z - expectedZ) > 100
\* if (Math.abs(z - currentExpectedZ) > 0.1) return;
RowMismatch(z, expectedZ) == Abs(z - expectedZ) > 1

Direction_flipped(x) == IF x < 0 THEN 1 ELSE 0
\* BigInt(tile.position.x < 0 ? 0 : 1)
Direction(x) == IF x < 0 THEN 0 ELSE 1

IsSafe_always(tile) == TRUE
\* const isSafe = !tile.userData.break;
IsSafe(tile) == ~tile.break

NextExpectedZ_stay(z) == z
\* currentExpectedZ = z - (tileSize + tileGapZ);
NextExpectedZ(z) == z - (tileSize + tileGapZ)

IsLastTile_any(z) == Abs(z - TileZ(numRows - 1)) < 100
\* const lastZ = -(numRows - 1) * (tileSize + tileGapZ); Math.abs(z - lastZ) < 0.1
IsLastTile(z) == Abs(z - TileZ(numRows - 1)) < 1

\* raycaster.intersectObjects(tiles): nothing, or the nearest tile under the pointer.
Hits == {<<>>} \cup {<<k>> : k \in 1..Len(tiles)}

\* -------------------------------------------------------- verify input
Alphabet == {"0", "x", "a", "A", " "}

RECURSIVE StringsUpTo(_)
StringsUpTo(n) ==
    IF n = 0 THEN {<<>>}
    ELSE LET shorter == StringsUpTo(n - 1)
         IN  shorter \cup {Append(s, c) : s \in {t \in shorter : Len(t) = n - 1},
                                          c \in Alphabet}
Inputs == StringsUpTo(MaxInputLen)
\* During a session: a short typed text, or the displayed digest pasted back.
SessionInputs == StringsUpTo(MaxTypedLen) \cup {proofHash}

IsSpace(c) == c = " "

\* String.prototype.trim()
RECURSIVE TrimStart(_)
TrimStart(s) ==
    IF Len(s) > 0 /\ IsSpace(s[1]) THEN TrimStart(Tail(s)) ELSE s
RECURSIVE TrimEnd(_)
TrimEnd(s) ==
    IF Len(s) > 0 /\ IsSpace(s[Len(s)]) THEN TrimEnd(SubSeq(s, 1, Len(s) - 1)) ELSE s
Trim(s) == TrimEnd(TrimStart(s))

LowerChar(c) ==
    CASE c = "A" -> "a"
      [] c = "B" -> "b"
      [] c = "C" -> "c"
      [] c = "D" -> "d"
      [] c = "E" -> "e"
      [] c = "F" -> "f"
      [] c = "X" -> "x"
      [] OTHER -> c
ToLowerCase_asIs(s) == s
\* String.prototype.toLowerCase()
ToLowerCase(s) == [i \in 1..Len(s) |-> LowerChar(s[i])]

\* ------------------------------------------------------------- states
Init ==
    /\ secretPath = <<>>
    /\ tiles = <<>>
    /\ publicHash = 0
    /\ listening = FALSE
    /\ currentExpectedZ = 0
    /\ canClick = TRUE
    /\ userPath = <<>>
    /\ mouse = <<>>
    /\ revealed = {}
    /\ cameraTweens = {}
    /\ failTimer = FALSE
    /\ winTimers = 0
    /\ flyovers = 0
    /\ pc = "idle"
    /\ proofRuns = 0
    /\ errorLogged = FALSE
    /\ noirInputs = NoInputs
    /\ proof = <<>>
    /\ proofHash = <<>>
    /\ copyButtons = FALSE
    /\ verifyListener = FALSE
    /\ proofInput = <<>>
    /\ verifyOutcome = "none"

\* One pass of the for loop of lines 104-123.
GenerateRow(safeIndex) ==
    /\ ~listening
    /\ Len(secretPath) < numRows
    /\ secretPath' = Append(secretPath, safeIndex)
    /\ tiles' = tiles \o RowTiles(Len(secretPath), safeIndex)
    /\ UNCHANGED <<publicHash, listening, mouse>>
    /\ UNCHANGED <<gameVars, proofVars, verifyVars>>

\* Lines 125-187: the commitment is computed and the click listener registered.
Commit ==
    /\ ~listening
    /\ Len(secretPath) = numRows
    /\ publicHash' = Poseidon2Hash(secretPath)
    /\ listening' = TRUE
    /\ UNCHANGED <<secretPath, tiles, mouse>>
    /\ UNCHANGED <<gameVars, proofVars, verifyVars>>

\* window "click" listener, lines 187-279.
Click(intersects) ==
    /\ listening
    /\ canClick
    /\ mouse' = intersects
    /\ UNCHANGED <<boardVars, proofVars, verifyVars>>
    /\ UNCHANGED flyovers
    /\ IF Len(intersects) = 0
       THEN UNCHANGED <<currentExpectedZ, canClick, userPath, revealed,
                        cameraTweens, failTimer, winTimers>>
       ELSE LET tile == tiles[intersects[1]]
                z == tile.z
            IN  IF RowMismatch(z, currentExpectedZ)
                THEN UNCHANGED <<currentExpectedZ, canClick, userPath, revealed,
                                 cameraTweens, failTimer, winTimers>>
                ELSE /\ userPath' = Append(userPath, Direction(tile.x))
                     /\ revealed' = revealed \cup {intersects[1]}
                     /\ cameraTweens' = cameraTweens \cup {z}
                     /\ IF ~IsSafe(tile)
                        THEN /\ canClick' = FALSE
                             /\ failTimer' = TRUE
                             /\ UNCHANGED <<currentExpectedZ, winTimers>>
                        ELSE /\ currentExpectedZ' = NextExpectedZ(z)
                             /\ canClick' = TRUE
                             /\ winTimers' = IF IsLastTile(z) THEN winTimers + 1
                                             ELSE winTimers
                             /\ UNCHANGED failTimer

\* The 0.5 s camera tween of line 202 ends.
TweenComplete(z) ==
    /\ z \in cameraTweens
    /\ cameraTweens' = cameraTweens \ {z}
    /\ UNCHANGED <<boardVars, mouse, proofVars, verifyVars>>
    /\ UNCHANGED <<currentExpectedZ, canClick, userPath, revealed, failTimer,
                   winTimers, flyovers>>

\* Lines 204-207: the alert, then location.reload(): the page starts over.
Reload ==
    /\ failTimer
    /\ secretPath' = <<>>
    /\ tiles' = <<>>
    /\ publicHash' = 0
    /\ listening' = FALSE
    /\ currentExpectedZ' = 0
    /\ canClick' = TRUE
    /\ userPath' = <<>>
    /\ mouse' = <<>>
    /\ revealed' = {}
    /\ cameraTweens' = {}
    /\ failTimer' = FALSE
    /\ winTimers' = 0
    /\ flyovers' = 0
    /\ pc' = "idle"
    /\ proofRuns' = 0
    /\ errorLogged' = FALSE
    /\ noirInputs' = NoInputs
    /\ proof' = <<>>
    /\ proofHash' = <<>>
    /\ copyButtons' = FALSE
    /\ verifyListener' = FALSE
    /\ proofInput' = <<>>
    /\ verifyOutcome' = "none"

\* Lines 215-217: the 500 ms timer fires and starts the fly-over tween.
WinTimerFires ==
    /\ winTimers > 0
    /\ winTimers' = winTimers - 1
    /\ flyovers' = flyovers + 1
    /\ UNCHANGED <<boardVars, mouse, proofVars, verifyVars>>
    /\ UNCHANGED <<currentExpectedZ, canClick, userPath, revealed, cameraTweens, failTimer>>

NextStage_continue(next, ok) == next
\* try { ... } catch (e) { console.error(e); }: a throw ends the pipeline.
NextStage(next, ok) == IF ok THEN next ELSE "caught"

\* Lines 218-225: onComplete runs up to `await getCircuit()`.
FlyoverComplete ==
    /\ flyovers > 0
    /\ flyovers' = flyovers - 1
    /\ proofRuns' = proofRuns + 1
    /\ pc' = "compile"
    /\ UNCHANGED <<errorLogged, noirInputs, proof, proofHash, copyButtons, verifyListener>>
    /\ UNCHANGED <<currentExpectedZ, canClick, userPath, revealed, cameraTweens,
                   failTimer, winTimers>>
    /\ UNCHANGED <<boardVars, mouse, verifyVars>>

\* Lines 225-234: getCircuit() settles; on success the inputs are assembled
\* and noir.execute is called.
CompileDone(ok) ==
    /\ pc = "compile"
    /\ pc' = NextStage("execute", ok)
    /\ errorLogged' = (errorLogged \/ ~ok)
    /\ noirInputs' = IF ok
                     THEN [secret_path |-> MapToString(secretPath),
                           user_path   |-> MapToString(userPath),
                           public_hash |-> ToString(publicHash)]
                     ELSE noirInputs
    /\ UNCHANGED <<proofRuns, proof, proofHash, copyButtons, verifyListener>>
    /\ UNCHANGED <<boardVars, mouse, gameVars, verifyVars>>

\* Lines 234-235: noir.execute settles; it throws when an assert of the circuit
\* fails, and may throw for other reasons.
ExecuteDone(ok) ==
    /\ pc = "execute"
    /\ ok => CircuitSatisfied(noirInputs)
    /\ pc' = NextStage("prove", ok)
    /\ errorLogged' = (errorLogged \/ ~ok)
    /\ UNCHANGED <<proofRuns, noirInputs, proof, proofHash, copyButtons, verifyListener>>
    /\ UNCHANGED <<boardVars, mouse, gameVars, verifyVars>>

\* Lines 235-238: backend.generateProof settles.
ProveDone(ok, bytes) ==
    /\ pc = "prove"
    /\ pc' = NextStage("digest", ok)
    /\ errorLogged' = (errorLogged \/ ~ok)
    /\ proof' = IF ok THEN bytes ELSE proof
    /\ UNCHANGED <<proofRuns, noirInputs, proofHash, copyButtons, verifyListener>>
    /\ UNCHANGED <<boardVars, mouse, gameVars, verifyVars>>

\* Lines 238-271: crypto.subtle.digest settles; the digest is displayed, the
\* copy buttons shown and the verify listener registered.
DigestDone(ok, digest) ==
    /\ pc = "digest"
    /\ pc' = NextStage("done", ok)
    /\ errorLogged' = (errorLogged \/ ~ok)
    /\ proofHash' = IF ok THEN toHex(digest) ELSE proofHash
    /\ copyButtons' = (copyButtons \/ ok)
    /\ verifyListener' = (verifyListener \/ ok)
    /\ UNCHANGED <<proofRuns, noirInputs, proof>>
    /\ UNCHANGED <<boardVars, mouse, gameVars, verifyVars>>

\* verify-btn "click" listener, lines 261-271, with `value` put in #proof-input.
Verify(value) ==
    /\ verifyListener
    /\ proofInput' = value
    /\ LET trimmed == Trim(value)
       IN  verifyOutcome' =
             IF Len(trimmed) = 0 THEN "prompt"
             ELSE IF ToLowerCase(trimmed) = ToLowerCase(proofHash) THEN "valid"
             ELSE "invalid"
    /\ UNCHANGED <<boardVars, mouse, gameVars, proofVars>>

Next ==
    \/ \E safeIndex \in 0..(numCols - 1) : GenerateRow(safeIndex)
    \/ Commit
    \/ \E intersects \in Hits : Click(intersects)
    \/ \E z \in cameraTweens : TweenComplete(z)
    \/ Reload
    \/ WinTimerFires
    \/ FlyoverComplete
    \/ \E ok \in BOOLEAN : CompileDone(ok)
    \/ \E ok \in BOOLEAN : ExecuteDone(ok)
    \/ \E ok \in BOOLEAN, bytes \in Proofs : ProveDone(ok, bytes)
    \/ \E ok \in BOOLEAN, digest \in Digests : DigestDone(ok, digest)
    \/ \E value \in SessionInputs : Verify(value)

Spec == Init /\ [][Next]_vars

\* ------------------------------------------- the verify listener alone
\* A won session whose proof pipeline has finished (the state Spec reaches for
\* the secret path 1,0,1 once the tweens have ended), with any digest
\* displayed and any text already in #proof-input; the verify button is then
\* clicked on the text as it stands.
VerifyInit ==
    /\ secretPath = <<1, 0, 1>>
    /\ tiles = RowTiles(0, 1) \o RowTiles(1, 0) \o RowTiles(2, 1)
    /\ publicHash = Poseidon2Hash(secretPath)
    /\ listening = TRUE
    /\ currentExpectedZ = TileZ(numRows)
    /\ canClick = TRUE
    /\ userPath = <<1, 0, 1>>
    /\ mouse = <<6>>
    /\ revealed = {2, 3, 6}
    /\ cameraTweens = {}
    /\ failTimer = FALSE
    /\ winTimers = 0
    /\ flyovers = 0
    /\ pc = "done"
    /\ proofRuns = 1
    /\ errorLogged = FALSE
    /\ noirInputs = [secret_path |-> MapToString(secretPath),
                     user_path   |-> MapToString(userPath),
                     public_hash |-> ToString(publicHash)]
    /\ proof \in Proofs
    /\ \E digest \in Digests : proofHash = toHex(digest)
    /\ copyButtons = TRUE
    /\ verifyListener = TRUE
    /\ proofInput \in Inputs
    /\ verifyOutcome = "none"

VerifyClick == Verify(proofInput)

VerifySpec == VerifyInit /\ [][VerifyClick]_vars

\* ============================================================ properties
\* Row (0-based) of the tile at index k of tiles, and of the cursor.
RowOf(k) == (k - 1) \div numCols
CursorRow == (0 - currentExpectedZ) \div (tileSize + tileGapZ)

\* Session states of the traversal validator, read off the program state.
BreakRevealed == \E k \in revealed : tiles[k].break
Failed == listening /\ ~canClick
Completed == winTimers + flyovers + proofRuns > 0
Restart == listening /\ ~listening'

\* C1: a click that hits no tile, or a tile of a row other than the expected
\* one, leaves the cursor, UserPath, the click lock and the reveals as they were.
C1_IgnoredClickChangesNothing ==
    [][\A h \in Hits :
          (Click(h) /\ (Len(h) = 0 \/ RowOf(h[1]) # CursorRow))
              => UNCHANGED <<currentExpectedZ, userPath, canClick, revealed>>]_vars

\* A click on a tile of the last row was handled while row 0 was expected.
C1_Witness ==
    /\ listening /\ canClick
    /\ Len(mouse) = 1 /\ RowOf(mouse[1]) = numRows - 1
    /\ CursorRow = 0 /\ userPath = <<>> /\ revealed = {}

\* C2: as long as only safe tiles were clicked the cursor is the row after the
\* last click and UserPath is that prefix of SecretPath; once the safe tile of
\* every row is revealed the session is Completed with UserPath = SecretPath,
\* and the inputs assembled for the prover are exactly SecretPath, UserPath and
\* the commitment computed at session start.
C2_SafePathCompletes ==
    /\ (listening /\ ~BreakRevealed) =>
          /\ Len(userPath) <= numRows
          /\ CursorRow = Len(userPath) /\ currentExpectedZ = TileZ(Len(userPath))
          /\ \A i \in 1..Len(userPath) : userPath[i] = secretPath[i]
          /\ revealed = {k \in 1..Len(tiles) :
                            RowOf(k) < Len(userPath) /\ ~tiles[k].break}
    /\ (listening /\ {k \in 1..Len(tiles) : ~tiles[k].break} \subseteq revealed) =>
          /\ Completed /\ ~Failed
          /\ userPath = secretPath
    /\ noirInputs # NoInputs =>
          /\ Len(noirInputs.secret_path) = numRows
          /\ Len(noirInputs.user_path) = numRows
          /\ \A i \in 1..numRows :
                /\ ParseField(noirInputs.secret_path[i]) = secretPath[i]
                /\ ParseField(noirInputs.user_path[i]) = userPath[i]
                /\ userPath[i] = secretPath[i]
          /\ ParseField(noirInputs.public_hash) = publicHash
          /\ publicHash = Poseidon2Hash(secretPath)

\* The three safe tiles were clicked and the inputs have been handed to noir.execute.
C2_Witness ==
    /\ pc = "execute" /\ noirInputs # NoInputs
    /\ Len(userPath) = numRows /\ ~BreakRevealed

\* C3: once a break tile is revealed the session is Failed: the lock is held,
\* the cursor still points at the row of that tile, no victory sequence or proof
\* run exists, and until the restart UserPath, the cursor and the reveals stay.
C3_BreakTileFails ==
    /\ [](BreakRevealed =>
            /\ Failed /\ failTimer
            /\ \A k \in revealed : tiles[k].break => currentExpectedZ = tiles[k].z
            /\ ~Completed /\ pc = "idle" /\ noirInputs = NoInputs)
    /\ [][(BreakRevealed /\ ~Restart)
             => UNCHANGED <<userPath, currentExpectedZ, revealed>>]_vars

\* A break tile was clicked on the second row and its camera tween has ended.
C3_Witness ==
    /\ BreakRevealed /\ Len(userPath) = 2 /\ cameraTweens = {}
    /\ Len(mouse) = 1 /\ RowOf(mouse[1]) = 1

\* C4: an accepted click is never taken while the camera transition of an
\* earlier accepted click is still in flight.
C4_OneMovePerTransition == Cardinality(cameraTweens) <= 1

\* C5: once the session is Completed no step changes UserPath, the cursor or
\* the reveals.
C5_NoInputAfterCompleted ==
    [][Completed => UNCHANGED <<userPath, currentExpectedZ, revealed>>]_vars

\* The proof pipeline has finished and a click on a first-row tile was handled since.
C5_Witness ==
    /\ Completed /\ pc = "done"
    /\ Len(mouse) = 1 /\ RowOf(mouse[1]) = 0

\* Letter case and surrounding blanks, stated without the listener's own helpers.
UpperChar(c) ==
    CASE c = "a" -> "A"
      [] c = "b" -> "B"
      [] c = "c" -> "C"
      [] c = "d" -> "D"
      [] c = "e" -> "E"
      [] c = "f" -> "F"
      [] c = "x" -> "X"
      [] OTHER -> c
SameIgnoringCase(s, t) ==
    /\ Len(s) = Len(t)
    /\ \A i \in 1..Len(s) : UpperChar(s[i]) = UpperChar(t[i])
NonBlank(s) == {i \in 1..Len(s) : s[i] # " "}
Stripped(s) ==
    IF NonBlank(s) = {} THEN <<>>
    ELSE LET first == CHOOSE i \in NonBlank(s) : \A j \in NonBlank(s) : i <= j
             last  == CHOOSE i \in NonBlank(s) : \A j \in NonBlank(s) : j <= i
         IN  SubSeq(s, first, last)

\* C6 as stated: after a verify click the result is "valid" when the text equals
\* the displayed digest ignoring letter case, and "invalid" for every other text.
C6_VerifyExactIgnoringCase ==
    verifyOutcome # "none" =>
        verifyOutcome = IF SameIgnoringCase(proofInput, proofHash)
                        THEN "valid" ELSE "invalid"

\* C6 amended: the text is first stripped of surrounding whitespace; an empty
\* remainder gives neither result (only a prompt), a remainder equal to the
\* digest ignoring letter case gives "valid", any other remainder "invalid".
C6_VerifyTrimmedIgnoringCase ==
    verifyOutcome # "none" =>
        verifyOutcome = IF Stripped(proofInput) = <<>> THEN "prompt"
                        ELSE IF SameIgnoringCase(Stripped(proofInput), proofHash)
                             THEN "valid" ELSE "invalid"

\* A text differing from the digest in letter case was verified as valid.
C6_Witness ==
    /\ verifyOutcome = "valid"
    /\ proofInput # proofHash /\ Len(proofInput) = Len(proofHash)

\* C7: once a step of the proof pipeline has thrown, the pipeline has stopped in
\* its catch, nothing is scheduled to run it again, no digest is displayed, the
\* copy buttons are hidden and no verify click has produced a result.
C7_FailureShowsNoSuccessUI ==
    errorLogged =>
        /\ pc = "caught" /\ proofRuns = 1 /\ winTimers = 0 /\ flyovers = 0
        /\ proofHash = <<>> /\ ~copyButtons
        /\ ~verifyListener /\ verifyOutcome = "none"

\* Witness execution or proof generation threw after the inputs were assembled.
C7_Witness == errorLogged /\ noirInputs # NoInputs /\ proof = <<>>

\* C8: UserPath has one element per revealed tile, at most numRows of them, and
\* as many as SecretPath once Completed; a step changes it only by appending one
\* element, and exactly when the step reveals a tile.
C8_UserPathGrowsByAcceptedClicks ==
    /\ [](/\ Len(userPath) <= numRows
          /\ Len(userPath) = Cardinality(revealed)
          /\ Completed => Len(userPath) = Len(secretPath))
    /\ [][~Restart =>
            /\ (userPath' # userPath) <=> (revealed' # revealed)
            /\ (userPath' # userPath) =>
                  /\ Len(userPath') = Len(userPath) + 1
                  /\ SubSeq(userPath', 1, Len(userPath)) = userPath
                  /\ Cardinality(revealed') = Cardinality(revealed) + 1]_vars

\* A full path was entered and the session is Completed.
C8_Witness == Completed /\ Len(userPath) = numRows /\ Len(secretPath) = numRows

\* C9: after board generation SecretPath has numRows column indices, every row
\* has exactly one safe tile, the one in SecretPath's column for that row, and
\* no step of the session changes SecretPath or the tiles' flags.
C9_BoardWellFormed ==
    /\ [](listening =>
            /\ Len(secretPath) = numRows
            /\ \A i \in 1..numRows : secretPath[i] \in 0..(numCols - 1)
            /\ Len(tiles) = numRows * numCols
            /\ \A r \in 0..(numRows - 1) :
                  {tiles[k].colIndex : k \in {n \in 1..Len(tiles) :
                        tiles[n].z = TileZ(r) /\ ~tiles[n].break}}
                    = {secretPath[r + 1]}
            /\ \A r \in 0..(numRows - 1) :
                  Cardinality({n \in 1..Len(tiles) :
                        tiles[n].z = TileZ(r) /\ ~tiles[n].break}) = 1)
    /\ [][(listening /\ ~Restart) => UNCHANGED <<secretPath, tiles>>]_vars

\* The board is built and a tile has been clicked and revealed.
C9_Witness == listening /\ revealed # {} /\ Len(userPath) > 0

\* C10: at most one victory sequence or proof run exists per session; it exists
\* only with no break tile revealed and UserPath = SecretPath; and the inputs
\* assembled for the prover satisfy both asserts of the circuit.
C10_ProofOnceOnValidPath ==
    /\ winTimers + flyovers + proofRuns <= 1
    /\ Completed => (~BreakRevealed /\ userPath = secretPath)
    /\ pc # "idle" => proofRuns = 1
    /\ noirInputs # NoInputs => CircuitSatisfied(noirInputs)

\* noir.execute accepted the inputs and proof generation is in flight.
C10_Witness == pc = "prove" /\ proofRuns = 1

====
